---- MODULE Spec2Model ----
(***************************************************************************)
(* PortfolioBuddy: the conversation orchestrator of agent.py (a LangGraph  *)
(* of four nodes run once per incoming message) and the ledger reader,     *)
(* portfolio enricher and recommendation engine of tools.py.               *)
(*                                                                         *)
(* Python values are encoded as follows.                                   *)
(*   Optional[T]   None is <<>>, a present value v is <<v>>.               *)
(*   float         money amounts and quantities are integers (the bounds   *)
(*                 keep every product and difference exact in binary64);   *)
(*                 a percentage is [inf, v]: v when finite, inf for the    *)
(*                 IEEE quotient of a positive number by zero;             *)
(*                 a confidence is [c, e]: c hundredths, e the rounding    *)
(*                 error of the binary64 sum in units in the last place.   *)
(*   dict          a record whose absent keys hold <<>>.                   *)
(* Timestamps (datetime.now()) are written and never read; they are left   *)
(* out of every record.                                                    *)
(***************************************************************************)
EXTENDS Integers, Sequences, FiniteSets, TLC

VARIABLES
    user_sessions,  \* agent.user_sessions: user id -> AgentState
    pc,             \* per user: the graph node about to run, or "idle"
    state,          \* per user: the graph's channel values rebound by nodes
    turn,           \* per user: what happened in the current (or last) turn
    sent,           \* per user: the texts handed to reply_text
    ledger,         \* the CSV file at csv_manager.csv_file_path
    nturns,         \* number of messages accepted so far
    fn_in,          \* harness: argument of a function applied on its own
    fn_out          \* harness: its result

vars == <<user_sessions, pc, state, turn, sent, ledger, nturns, fn_in, fn_out>>

----------------------------------------------------------------------------
(* Bounds                                                                  *)

MaxTurns == 2

Users == {"u1"}

\* The text of the n-th incoming message: every message is a different text.
Texts == <<"first message", "second message", "third message", "fourth message">>

----------------------------------------------------------------------------
(* Optional values and dictionaries                                        *)

None == <<>>

Some(v) == <<v>>

IsNone(o) == o = <<>>

Val(o) == o[1]

\* dict.get(key, default) on an Optional-valued field
Get(o, default) == IF IsNone(o) THEN default ELSE Val(o)

RECURSIVE SumSeq(_)
SumSeq(s) == IF s = <<>> THEN 0 ELSE Head(s) + SumSeq(Tail(s))

----------------------------------------------------------------------------
(* portfolio_types.py                                                      *)

SentimentIndicator == {"positive", "neutral", "negative"}

ActionType == {"buy", "sell", "hold", "watch"}

\* A finite percentage.
Pct(v) == [inf |-> FALSE, v |-> v]

\* The IEEE quotient x / 0.0 for x > 0.
PctInf == [inf |-> TRUE, v |-> 0]

\* x > n and x < n on percentages.
PctGt(x, n) == x.inf \/ x.v > n

PctLt(x, n) == ~x.inf /\ x.v < n

\* Binary64 confidences: c hundredths, e units in the last place off c/100.
Conf(c) == [c |-> c, e |-> 0]

ConfLe(x, y) == x.c < y.c \/ (x.c = y.c /\ x.e <= y.e)

ConfMin(x, y) == IF ConfLe(x, y) THEN x ELSE y

ConfMax(x, y) == IF ConfLe(x, y) THEN y ELSE x

\* x + d/100 rounded to binary64, for the sums the engine forms: in binary64
\* 0.7 + 0.2 = 0.8999999999999999, 0.7 - 0.2 = 0.49999999999999994,
\* 0.8999999999999999 - 0.1 = 0.7999999999999999 and 0.7 - 0.1 = 0.6.
ConfAdd(x, d) ==
    CASE x = Conf(70) /\ d = 20  -> [c |-> 90, e |-> -1]
      [] x = Conf(70) /\ d = -20 -> [c |-> 50, e |-> -1]
      [] OTHER                   -> [c |-> x.c + d, e |-> x.e]

PortfolioHolding(symbol, quantity, avg_cost) ==
    [symbol |-> symbol, quantity |-> quantity, avg_cost |-> avg_cost,
     current_price |-> None, value |-> None, gain_loss |-> None,
     gain_loss_percent |-> None]

\* total_gain_loss_percent is kept as the fraction num/den it is computed from.
PortfolioData(holdings) ==
    [holdings |-> holdings, total_value |-> 0, total_gain_loss |-> 0,
     total_gain_loss_percent |-> [num |-> 0, den |-> 1]]

\* The fields of a MarketData the program reads.
MarketData(price, change_percent) ==
    [price |-> price, change_percent |-> change_percent]

----------------------------------------------------------------------------
(* tools.py: CSVPortfolioManager                                           *)

\* A ledger cell is the text of the field; NoValue is the None that
\* csv.DictReader stores for a field missing from a short row.
NoValue == "<None>"

\* str.strip().upper() on the symbol texts of the ledgers below.
StripUpper(s) ==
    CASE s = " aapl " -> "AAPL"
      [] s = "tsla"   -> "TSLA"
      [] s = "   "    -> ""
      [] OTHER        -> s

\* float(text): "ok" with the number, ValueError for non-numeric text,
\* TypeError for None.
ParseFloat(s) ==
    CASE s = "0"     -> [err |-> "ok", v |-> 0]
      [] s = "1"     -> [err |-> "ok", v |-> 1]
      [] s = "2"     -> [err |-> "ok", v |-> 2]
      [] s = " 4 "   -> [err |-> "ok", v |-> 4]
      [] s = "4"     -> [err |-> "ok", v |-> 4]
      [] s = NoValue -> [err |-> "TypeError", v |-> 0]
      [] OTHER       -> [err |-> "ValueError", v |-> 0]

Row(symbol, quantity, avg_cost) ==
    [Symbol |-> symbol, Quantity |-> quantity, AverageCost |-> avg_cost]

\* The loop over the rows: the holdings read so far, or "fatal" when a row
\* raises something other than ValueError or KeyError.
RECURSIVE ReadRows(_, _)
ReadRows(rows, holdings) ==
    IF rows = <<>> THEN [fatal |-> FALSE, holdings |-> holdings]
    ELSE LET row == Head(rows)
             q == ParseFloat(row.Quantity)
             a == ParseFloat(row.AverageCost)
         IN  IF StripUpper(row.Symbol) = ""
                 THEN ReadRows(Tail(rows), holdings)
             ELSE IF q.err = "TypeError" \/ (q.err = "ok" /\ a.err = "TypeError")
                 THEN [fatal |-> TRUE, holdings |-> <<>>]
             ELSE IF q.err = "ValueError" \/ a.err = "ValueError"
                 THEN ReadRows(Tail(rows), holdings)
             ELSE ReadRows(Tail(rows),
                           Append(holdings,
                                  PortfolioHolding(StripUpper(row.Symbol), q.v, a.v)))

get_portfolio_data(file) ==
    IF ~file.exists THEN PortfolioData(<<>>)
    ELSE LET r == ReadRows(file.rows, <<>>)
         IN  IF r.fatal THEN PortfolioData(<<>>) ELSE PortfolioData(r.holdings)

----------------------------------------------------------------------------
(* tools.py: YahooFinanceManager and the portfolio enricher                *)

\* get_multiple_market_data as an atomic batch: one failed fetch and the
\* whole dict is empty.
get_multiple_market_data_atomic(symbols, fetched) ==
    IF \E i \in 1..Len(symbols) : IsNone(fetched[i])
    THEN [sym \in {} |-> MarketData(0, 0)]
    ELSE [sym \in {symbols[i] : i \in 1..Len(symbols)} |->
             Val(fetched[CHOOSE i \in 1..Len(symbols) :
                            /\ symbols[i] = sym
                            /\ \A j \in (i + 1)..Len(symbols) : symbols[j] # sym])]

\* get_multiple_market_data: fetched[i] is what get_market_data returned for
\* symbols[i] (None on any failure). The dict keeps, per symbol, the last
\* quote that was fetched.
get_multiple_market_data(symbols, fetched) ==
    LET got == {symbols[i] : i \in {j \in 1..Len(symbols) : ~IsNone(fetched[j])}}
        last(sym) == CHOOSE i \in 1..Len(symbols) :
                        /\ symbols[i] = sym
                        /\ ~IsNone(fetched[i])
                        /\ \A j \in (i + 1)..Len(symbols) :
                              symbols[j] = sym => IsNone(fetched[j])
    IN  [sym \in got |-> Val(fetched[last(sym)])]

\* The body of the loop of update_portfolio_with_market_data for a holding
\* that has a quote. The caller decides what avg_cost = 0 does.
EnrichHolding(holding, market_data) ==
    [holding EXCEPT
        !.current_price = Some(market_data.price),
        !.value = Some(holding.quantity * market_data.price),
        !.gain_loss = Some((market_data.price - holding.avg_cost) * holding.quantity),
        !.gain_loss_percent =
            IF holding.avg_cost = 0 THEN Some(PctInf)
            ELSE Some(Pct(((market_data.price - holding.avg_cost) * 100)
                          \div holding.avg_cost))]

\* Line 348 divides by avg_cost with no guard. With avg_cost = 0 the
\* division raises ZeroDivisionError when the price is a built-in float (the
\* declared type of MarketData.price) and yields inf, with a warning only,
\* when the price is the numpy.float64 that pandas hands to get_market_data.
\* numeric says which of the two the quotes of this call are.
DivisionRaises(portfolio, market_data_dict, numeric) ==
    /\ numeric = "float"
    /\ \E i \in 1..Len(portfolio.holdings) :
          /\ portfolio.holdings[i].symbol \in DOMAIN market_data_dict
          /\ portfolio.holdings[i].avg_cost = 0

\* Lines 341-348: every holding whose symbol has a quote is enriched, the
\* others are left as they are.
EnrichHoldings(holdings, market_data_dict) ==
    [i \in 1..Len(holdings) |->
        IF holdings[i].symbol \in DOMAIN market_data_dict
        THEN EnrichHolding(holdings[i], market_data_dict[holdings[i].symbol])
        ELSE holdings[i]]

\* total_value with the holdings that have no quote counted at cost.
TotalValueAtCost(holdings, market_data_dict) ==
    SumSeq([i \in 1..Len(holdings) |->
               IF holdings[i].symbol \in DOMAIN market_data_dict
               THEN holdings[i].quantity * market_data_dict[holdings[i].symbol].price
               ELSE holdings[i].quantity * holdings[i].avg_cost])

\* Lines 338, 343, 350: total_value, summed inside the branch that enriches.
TotalValue(holdings, market_data_dict) ==
    SumSeq([i \in 1..Len(holdings) |->
               IF holdings[i].symbol \in DOMAIN market_data_dict
               THEN holdings[i].quantity * market_data_dict[holdings[i].symbol].price
               ELSE 0])

\* Lines 339, 343, 351: total_gain_loss, summed inside the same branch.
TotalGainLoss(holdings, market_data_dict) ==
    SumSeq([i \in 1..Len(holdings) |->
               IF holdings[i].symbol \in DOMAIN market_data_dict
               THEN (market_data_dict[holdings[i].symbol].price - holdings[i].avg_cost)
                    * holdings[i].quantity
               ELSE 0])

\* raised: the call ended in ZeroDivisionError and returned nothing.
update_portfolio_with_market_data(portfolio, fetched, numeric) ==
    LET symbols == [i \in 1..Len(portfolio.holdings) |-> portfolio.holdings[i].symbol]
        market_data_dict == get_multiple_market_data(symbols, fetched)
        total_value == TotalValue(portfolio.holdings, market_data_dict)
        total_gain_loss == TotalGainLoss(portfolio.holdings, market_data_dict)
    IN  IF DivisionRaises(portfolio, market_data_dict, numeric)
        THEN [raised |-> TRUE, portfolio |-> portfolio]
        ELSE [raised |-> FALSE,
              portfolio |->
                [holdings |-> EnrichHoldings(portfolio.holdings, market_data_dict),
                 total_value |-> total_value,
                 total_gain_loss |-> total_gain_loss,
                 total_gain_loss_percent |->
                    IF total_value # total_gain_loss
                    THEN [num |-> total_gain_loss * 100,
                          den |-> total_value - total_gain_loss]
                    ELSE [num |-> 0, den |-> 1]]]

----------------------------------------------------------------------------
(* tools.py: NewsManager                                                   *)

\* The fields of a NewsItem that tell where it came from and what it says.
SourcedItem(sentiment, source) == [sentiment |-> sentiment, source |-> source]

\* What a news request hands back: the items, the sources it called, in
\* order, and whether an exception left the function instead.
NewsOutcome(items, calls, raised) == [items |-> items, calls |-> calls, raised |-> raised]

\* Lines 163-190. secondary is what ticker.news does: "ok" with the items
\* built from it, or "failed" (the fetch or the building of an item raises,
\* and the except of lines 187-189 returns the empty list).
get_yahoo_news(secondary) ==
    IF secondary.kind = "failed" THEN NewsOutcome(<<>>, <<"yahoo">>, FALSE)
    ELSE NewsOutcome(secondary.items, <<"yahoo">>, FALSE)

\* get_stock_news returning, on a parse error, the items built so far in
\* front of the secondary source's items.
get_stock_news_keeps_partial(api_key, primary, secondary) ==
    LET yahoo == get_yahoo_news(secondary)
    IN  IF ~api_key THEN yahoo
        ELSE IF primary.kind = "ok" THEN NewsOutcome(primary.items, <<"newsapi">>, FALSE)
        ELSE NewsOutcome(primary.items \o yahoo.items, <<"newsapi">> \o yahoo.calls,
                         yahoo.raised)

\* Lines 117-161. api_key says whether a credential is configured; primary
\* is what the request to newsapi.org does: "ok" with the items built from
\* the articles, "request_failed" (requests.get or raise_for_status raises),
\* or "parse_error" after the items in primary.items had been built.
get_stock_news(api_key, primary, secondary) ==
    LET yahoo == get_yahoo_news(secondary)
    IN  IF ~api_key THEN yahoo
        ELSE IF primary.kind = "ok" THEN NewsOutcome(primary.items, <<"newsapi">>, FALSE)
        ELSE NewsOutcome(yahoo.items, <<"newsapi">> \o yahoo.calls, yahoo.raised)

----------------------------------------------------------------------------
(* tools.py: PortfolioAnalyzer                                             *)

\* One part of the reasoning string: its text, and the percentage that the
\* f-string formats into it. The string joins the parts with ". ".
Fragment(text, arg) == [text |-> text, arg |-> arg]

\* BaseRecommendation with the thresholds included (>= 5 and <= -5).
BaseRecommendationInclusive(change_percent) ==
    IF change_percent >= 5
        THEN [action |-> "buy", confidence |-> Conf(70),
              reasoning |-> <<Fragment("Price is up %", Some(Pct(change_percent)))>>]
    ELSE IF change_percent <= -5
        THEN [action |-> "sell", confidence |-> Conf(70),
              reasoning |-> <<Fragment("Price is down %", Some(Pct(-change_percent)))>>]
    ELSE [action |-> "hold", confidence |-> Conf(50),
          reasoning |-> <<Fragment("Price is relatively stable", None)>>]

\* Lines 290-301: the base recommendation from the price change.
BaseRecommendation(change_percent) ==
    IF change_percent > 5
        THEN [action |-> "buy", confidence |-> Conf(70),
              reasoning |-> <<Fragment("Price is up %", Some(Pct(change_percent)))>>]
    ELSE IF change_percent < -5
        THEN [action |-> "sell", confidence |-> Conf(70),
              reasoning |-> <<Fragment("Price is down %", Some(Pct(-change_percent)))>>]
    ELSE [action |-> "hold", confidence |-> Conf(50),
          reasoning |-> <<Fragment("Price is relatively stable", None)>>]

\* AdjustForSentiment without the downgrades: news that contradicts the
\* price move leaves the action and its confidence alone.
AdjustForSentimentNoDowngrade(r, sentiment) ==
    IF sentiment = "positive" THEN
        [action |-> r.action,
         confidence |->
            IF r.action = "buy" THEN ConfMin(ConfAdd(r.confidence, 20), Conf(100))
            ELSE r.confidence,
         reasoning |-> Append(r.reasoning, Fragment("Positive news sentiment", None))]
    ELSE IF sentiment = "negative" THEN
        [action |-> r.action,
         confidence |->
            IF r.action = "sell" THEN ConfMin(ConfAdd(r.confidence, 20), Conf(100))
            ELSE r.confidence,
         reasoning |-> Append(r.reasoning, Fragment("Negative news sentiment", None))]
    ELSE r

\* Lines 304-317: the adjustment by the aggregate sentiment.
AdjustForSentiment(r, sentiment) ==
    IF sentiment = "positive" THEN
        [action |-> IF r.action = "sell" THEN "hold" ELSE r.action,
         confidence |->
            IF r.action = "buy" THEN ConfMin(ConfAdd(r.confidence, 20), Conf(100))
            ELSE IF r.action = "sell" THEN ConfMax(ConfAdd(r.confidence, -20), Conf(10))
            ELSE r.confidence,
         reasoning |-> Append(r.reasoning, Fragment("Positive news sentiment", None))]
    ELSE IF sentiment = "negative" THEN
        [action |-> IF r.action = "buy" THEN "hold" ELSE r.action,
         confidence |->
            IF r.action = "sell" THEN ConfMin(ConfAdd(r.confidence, 20), Conf(100))
            ELSE IF r.action = "buy" THEN ConfMax(ConfAdd(r.confidence, -20), Conf(10))
            ELSE r.confidence,
         reasoning |-> Append(r.reasoning, Fragment("Negative news sentiment", None))]
    ELSE r

\* ConsiderHolding dampening from a gain of 20 on (>= for >) and whatever
\* the action is.
ConsiderHoldingFromTwenty(r, holding) ==
    IF IsNone(holding) \/ IsNone(Val(holding).gain_loss_percent) THEN r
    ELSE LET gain_loss_percent == Val(Val(holding).gain_loss_percent)
         IN  IF PctGt(gain_loss_percent, 19) THEN
                 [action |-> IF r.action = "buy" THEN "hold" ELSE r.action,
                  confidence |-> ConfMax(ConfAdd(r.confidence, -10), Conf(30)),
                  reasoning |-> Append(r.reasoning,
                                      Fragment("You have % gains", Some(gain_loss_percent)))]
             ELSE IF PctLt(gain_loss_percent, -20) THEN
                 [r EXCEPT !.reasoning =
                     Append(r.reasoning,
                            Fragment("You have % losses",
                                     Some(Pct(-gain_loss_percent.v))))]
             ELSE r

\* Lines 320-328: the holding's own performance. holding is an Optional.
ConsiderHolding(r, holding) ==
    IF IsNone(holding) \/ IsNone(Val(holding).gain_loss_percent) THEN r
    ELSE LET gain_loss_percent == Val(Val(holding).gain_loss_percent)
         IN  IF PctGt(gain_loss_percent, 20) THEN
                 [action |-> IF r.action = "buy" THEN "hold" ELSE r.action,
                  confidence |->
                     IF r.action = "buy"
                     THEN ConfMax(ConfAdd(r.confidence, -10), Conf(30))
                     ELSE r.confidence,
                  reasoning |-> Append(r.reasoning,
                                      Fragment("You have % gains", Some(gain_loss_percent)))]
             ELSE IF PctLt(gain_loss_percent, -20) THEN
                 [r EXCEPT !.reasoning =
                     Append(r.reasoning,
                            Fragment("You have % losses",
                                     Some(Pct(-gain_loss_percent.v))))]
             ELSE r

\* generate_recommendation adjusting the confidence once for every news
\* item, with no cap on the result.
generate_recommendation_per_item(market_data, sentiment, news, holding) ==
    LET r == BaseRecommendation(market_data.change_percent)
    IN  [r EXCEPT !.confidence = [c |-> r.confidence.c + 20 * Len(news), e |-> 0]]

\* generate_recommendation consulting the session store: once a session
\* exists the result is a cautious HOLD at 0.5.
generate_recommendation_by_session(market_data, sentiment, news, holding) ==
    LET r == ConsiderHolding(
                 AdjustForSentiment(BaseRecommendation(market_data.change_percent),
                                    sentiment),
                 holding)
    IN  IF DOMAIN user_sessions = {} THEN r
        ELSE [r EXCEPT !.action = "hold", !.confidence = Conf(50)]

\* The news argument is not read by the function.
generate_recommendation(market_data, sentiment, news, holding) ==
    ConsiderHolding(
        AdjustForSentiment(BaseRecommendation(market_data.change_percent), sentiment),
        holding)

\* Lines 246-247: the number of items that carry the label.
CountLabel(news_items, label) ==
    Cardinality({i \in 1..Len(news_items) : news_items[i].sentiment = label})

\* OverallSentiment as a vote among the three labels: the label on more
\* items than each of the other two, neutral when there is none.
OverallSentimentMajority(news_items) ==
    LET wins(label) ==
            \A other \in SentimentIndicator \ {label} :
                CountLabel(news_items, label) > CountLabel(news_items, other)
    IN  IF wins("positive") THEN "positive"
        ELSE IF wins("negative") THEN "negative"
        ELSE "neutral"

\* Lines 245-256: the aggregate sentiment of the fetched news items.
OverallSentiment(news_items) ==
    LET positive_count ==
            Cardinality({i \in 1..Len(news_items) : news_items[i].sentiment = "positive"})
        negative_count ==
            Cardinality({i \in 1..Len(news_items) : news_items[i].sentiment = "negative"})
    IN  IF news_items = <<>> THEN "neutral"
        ELSE IF positive_count > negative_count THEN "positive"
        ELSE IF negative_count > positive_count THEN "negative"
        ELSE "neutral"

\* market_data is what get_market_data returned (an Optional), news_items
\* what get_stock_news returned; the news is fetched only with a quote.
analyze_symbol(symbol, holding, market_data, news_items) ==
    IF IsNone(market_data) THEN
        [symbol |-> symbol, current_price |-> 0, sentiment |-> "neutral",
         news_summary |-> <<>>, change_percent |-> None,
         recommendation |-> "watch", confidence |-> Conf(0),
         reasoning |-> <<Fragment("Unable to fetch market data", None)>>]
    ELSE LET r == generate_recommendation(Val(market_data),
                                          OverallSentiment(news_items),
                                          news_items, holding)
         IN  [symbol |-> symbol, current_price |-> Val(market_data).price,
              sentiment |-> OverallSentiment(news_items),
              news_summary |-> SubSeq(news_items, 1,
                                      IF Len(news_items) < 3 THEN Len(news_items) ELSE 3),
              change_percent |-> Some(Val(market_data).change_percent),
              recommendation |-> r.action, confidence |-> r.confidence,
              reasoning |-> r.reasoning]

----------------------------------------------------------------------------
(* agent.py: the session store and the four graph nodes                    *)

\* Line 273.
Apology == "Sorry, I encountered an error processing your request. Please try again."

\* response.content of a synthesis call that returned.
Reply == "<oracle reply>"

\* The symbols entry of the classifier's record: a JSON list, or (iter
\* FALSE) a JSON number, which is truthy and cannot be iterated.
SymList(items) == [iter |-> TRUE, items |-> items]

NotIterable == [iter |-> FALSE, items |-> <<>>]

\* The empty dict {} of a new session.
EmptyContext ==
    [intent |-> None, symbols |-> None, requires_portfolio |-> None,
     all_analyses |-> None]

\* Lines 285-291.
NewSession ==
    [messages |-> <<>>, portfolio_data |-> None, current_analysis |-> None,
     user_context |-> EmptyContext, last_action |-> None]

\* get_or_create_session building the new session around one list shared by
\* all sessions: the new session starts with the messages of the others.
get_or_create_session_shared(sessions, user_id) ==
    IF user_id \in DOMAIN sessions THEN sessions
    ELSE IF DOMAIN sessions = {} THEN (user_id :> NewSession)
    ELSE LET other == CHOOSE v \in DOMAIN sessions : TRUE
         IN  (user_id :> [NewSession EXCEPT !.messages = sessions[other].messages])
             @@ sessions

get_or_create_session(sessions, user_id) ==
    IF user_id \in DOMAIN sessions THEN sessions
    ELSE (user_id :> NewSession) @@ sessions

Message(role, content) == [role |-> role, content |-> content]

\* process_message falling back to the whole default record as soon as one
\* key is absent from the parsed dict.
process_message_all_or_nothing(user_context, reply) ==
    IF /\ reply.kind = "parsed"
       /\ ~IsNone(reply.analysis.intent)
       /\ ~IsNone(reply.analysis.symbols)
       /\ ~IsNone(reply.analysis.requires_portfolio)
    THEN
        [user_context EXCEPT
            !.intent = reply.analysis.intent,
            !.symbols = reply.analysis.symbols,
            !.requires_portfolio = reply.analysis.requires_portfolio]
    ELSE
        [user_context EXCEPT
            !.intent = Some("general_question"),
            !.symbols = Some(SymList(<<>>)),
            !.requires_portfolio = Some(FALSE)]

\* process_message starting every turn from a context without the list of
\* analyses of the turn before.
process_message_drops_analyses(user_context, reply) ==
    IF reply.kind = "parsed" THEN
        [user_context EXCEPT
            !.intent = Some(Get(reply.analysis.intent, "general_question")),
            !.symbols = Some(Get(reply.analysis.symbols, SymList(<<>>))),
            !.requires_portfolio = Some(Get(reply.analysis.requires_portfolio, FALSE)),
            !.all_analyses = None]
    ELSE
        [user_context EXCEPT
            !.intent = Some("general_question"),
            !.symbols = Some(SymList(<<>>)),
            !.requires_portfolio = Some(FALSE),
            !.all_analyses = None]

\* process_message writing the symbols entry only when the parsed record
\* has one: otherwise the symbols of the turn before stay in the context.
process_message_keeps_symbols(user_context, reply) ==
    IF reply.kind = "parsed" THEN
        [user_context EXCEPT
            !.intent = Some(Get(reply.analysis.intent, "general_question")),
            !.symbols = IF IsNone(reply.analysis.symbols)
                        THEN Some(Get(user_context.symbols, SymList(<<>>)))
                        ELSE reply.analysis.symbols,
            !.requires_portfolio = Some(Get(reply.analysis.requires_portfolio, FALSE))]
    ELSE
        [user_context EXCEPT
            !.intent = Some("general_question"),
            !.symbols = Some(Get(user_context.symbols, SymList(<<>>))),
            !.requires_portfolio = Some(FALSE)]

\* process_message with an except branch that only logs: a failed
\* classification leaves the context as the previous turn left it.
process_message_keeps_context(user_context, reply) ==
    IF reply.kind = "parsed" THEN
        [user_context EXCEPT
            !.intent = Some(Get(reply.analysis.intent, "general_question")),
            !.symbols = Some(Get(reply.analysis.symbols, SymList(<<>>))),
            !.requires_portfolio = Some(Get(reply.analysis.requires_portfolio, FALSE))]
    ELSE user_context

\* Lines 95-119. reply.kind is "call_failed" when llm.ainvoke raises,
\* "unparseable" when json.loads raises or yields no object, and "parsed"
\* when it yields the dict reply.analysis (absent keys are None).
process_message(user_context, reply) ==
    IF reply.kind = "parsed" THEN
        [user_context EXCEPT
            !.intent = Some(Get(reply.analysis.intent, "general_question")),
            !.symbols = Some(Get(reply.analysis.symbols, SymList(<<>>))),
            !.requires_portfolio = Some(Get(reply.analysis.requires_portfolio, FALSE))]
    ELSE
        [user_context EXCEPT
            !.intent = Some("general_question"),
            !.symbols = Some(SymList(<<>>)),
            !.requires_portfolio = Some(FALSE)]

\* should_fetch_portfolio taking the third entry of the edge map (line 60):
\* a stock analysis goes straight to analyze_portfolio.
should_fetch_portfolio_to_analyze(user_context) ==
    IF Get(user_context.requires_portfolio, FALSE) THEN "fetch_portfolio"
    ELSE IF user_context.intent = Some("stock_analysis") THEN "analyze_portfolio"
    ELSE IF user_context.intent = Some("portfolio_query") THEN "fetch_portfolio"
    ELSE "generate_response"

\* should_fetch_portfolio looking at the flag alone.
should_fetch_portfolio_flag_only(user_context) ==
    IF Get(user_context.requires_portfolio, FALSE) THEN "fetch_portfolio"
    ELSE "generate_response"

\* Lines 123-130: the conditional edge after process_message.
should_fetch_portfolio(user_context) ==
    IF Get(user_context.requires_portfolio, FALSE) THEN "fetch_portfolio"
    ELSE IF ~IsNone(user_context.intent)
            /\ Val(user_context.intent) \in {"portfolio_query", "stock_analysis"}
        THEN "fetch_portfolio"
    ELSE "generate_response"

\* Lines 134-143: the Optional snapshot the node stores.
fetch_portfolio(file, fetched, numeric) ==
    LET r == update_portfolio_with_market_data(get_portfolio_data(file), fetched, numeric)
    IN  IF r.raised THEN None ELSE Some(r.portfolio)

\* Line 163: the first holding with the symbol, or None.
FindHolding(portfolio, symbol) ==
    LET at == {i \in 1..Len(portfolio.holdings) : portfolio.holdings[i].symbol = symbol}
    IN  IF at = {} THEN None
        ELSE Some(portfolio.holdings[CHOOSE i \in at : \A j \in at : i <= j])

\* Lines 154-158.
SymbolsToAnalyze(portfolio, user_context) ==
    LET symbols == Get(user_context.symbols, SymList(<<>>))
    IN  IF symbols.iter /\ symbols.items = <<>>
        THEN [i \in 1..Len(portfolio.holdings) |-> portfolio.holdings[i].symbol]
        ELSE symbols.items

\* Lines 160-165. results[i] is what the gateways returned for the i-th
\* symbol: the quote (an Optional) and the news items.
Analyses(portfolio, symbols, results) ==
    [i \in 1..Len(symbols) |->
        analyze_symbol(symbols[i], FindHolding(portfolio, symbols[i]),
                       results[i].market_data, results[i].news_items)]

\* Lines 187-207: formatting a holding whose gain_loss_percent is None
\* raises TypeError (the key is present, so .get returns None, which neither
\* sorts against a float nor takes the format ".1f").
ContextRaises(portfolio_data) ==
    /\ ~IsNone(portfolio_data)
    /\ \E i \in 1..Len(Val(portfolio_data).holdings) :
          IsNone(Val(portfolio_data).holdings[i].gain_loss_percent)

----------------------------------------------------------------------------
(* What the collaborators may hand back                                    *)

MissingFile == [exists |-> FALSE, rows |-> <<>>]

File(rows) == [exists |-> TRUE, rows |-> rows]

\* The ledger files of the orchestrator's runs: none, one with a holding
\* bought at no cost, and one with a blank and a non-numeric row.
Ledgers ==
    { MissingFile,
      File(<<Row("tsla", "1", "4"), Row("AAPL", "2", "0")>>),
      File(<<Row("   ", "1", "1"), Row("MSFT", "abc", "1"), Row(" aapl ", "2", " 4 ")>>) }

Intents == {"portfolio_query", "stock_analysis", "general_question", "greeting", "smalltalk"}

SymbolValues == {SymList(<<>>), SymList(<<"MSFT", "AAPL">>), NotIterable}

Opt(S) == {None} \cup {Some(x) : x \in S}

\* The dict json.loads returned; an absent key is None.
Parsed(intent, symbols, requires_portfolio) ==
    [kind |-> "parsed",
     analysis |-> [intent |-> intent, symbols |-> symbols,
                   requires_portfolio |-> requires_portfolio]]

\* The outcomes of the classification call: the call raises, the reply holds
\* no JSON object, every intent with either flag, every symbols value, and
\* records that lack one, two or all three keys.
ClassifierReplies ==
    { [kind |-> k, analysis |-> [intent |-> None, symbols |-> None,
                                 requires_portfolio |-> None]] :
        k \in {"call_failed", "unparseable"} }
    \cup { Parsed(Some(i), Some(SymList(<<>>)), Some(r)) : i \in Intents, r \in BOOLEAN }
    \cup { Parsed(Some("stock_analysis"), Some(s), Some(FALSE)) : s \in SymbolValues }
    \cup { Parsed(None, Some(SymList(<<"MSFT", "AAPL">>)), Some(TRUE)),
           Parsed(Some("portfolio_query"), None, None),
           Parsed(Some("greeting"), Some(SymList(<<>>)), None),
           Parsed(None, None, None) }

\* Quotes get_market_data may return to the orchestrator.
Quotes == {MarketData(6, 8)}

NewsItem(sentiment) == [sentiment |-> sentiment]

\* What the two gateways return for one symbol of the Analyze step.
SymbolResults ==
    { [market_data |-> None, news_items |-> <<>>] }
    \cup
    { [market_data |-> Some(q), news_items |-> n] :
        q \in Quotes, n \in {<<NewsItem("positive")>>} }

Numerics == {"float", "float64"}

----------------------------------------------------------------------------
(* The orchestrator                                                        *)

Steps == {"process_message", "fetch_portfolio", "analyze_portfolio", "generate_response"}

\* What is recorded of a turn: the text of the update (incoming), the text a
\* command handler put in its place (synthetic), the nodes that ran (steps),
\* the message and the reply of the classification (read, reply), the
\* symbols quoted by the fetch (quoted), the list the analysis built
\* (analysed), the outcome of the synthesis call (synth) and what went into
\* its prompt (prompt).
NoTurn ==
    [steps |-> <<>>, read |-> None, reply |-> None, quoted |-> None,
     synth |-> "none", prompt |-> None, analysed |-> None,
     incoming |-> None, synthetic |-> None]

IdleState == [portfolio_data |-> None, current_analysis |-> None]

Init ==
    /\ user_sessions = [u \in {} |-> NewSession]
    /\ pc = [u \in Users |-> "idle"]
    /\ state = [u \in Users |-> IdleState]
    /\ turn = [u \in Users |-> NoTurn]
    /\ sent = [u \in Users |-> <<>>]
    /\ ledger \in Ledgers
    /\ nturns = 0
    /\ fn_in = None
    /\ fn_out = None

\* ProcessTelegramMessage under an Application that runs handlers
\* concurrently: a message is accepted while a turn is in the pipeline.
ProcessTelegramMessageConcurrent(u, message_text) ==
    /\ nturns < MaxTurns
    /\ nturns < Len(Texts)
    /\ message_text = Texts[nturns + 1]
    /\ LET sessions == get_or_create_session(user_sessions, u)
           session == sessions[u]
       IN  /\ user_sessions' =
                [sessions EXCEPT ![u].messages = Append(@, Message("user", message_text))]
           /\ state' = [state EXCEPT ![u] =
                            [portfolio_data |-> session.portfolio_data,
                             current_analysis |-> session.current_analysis]]
    /\ pc' = [pc EXCEPT ![u] = "process_message"]
    /\ turn' = [turn EXCEPT ![u] = [NoTurn EXCEPT !.incoming = Some(message_text)]]
    /\ nturns' = nturns + 1
    /\ UNCHANGED <<sent, ledger, fn_in, fn_out>>

\* Lines 296-311: the handler up to graph.ainvoke. The Application built at
\* line 399 hands updates to the handlers one at a time.
ProcessTelegramMessage(u, message_text) ==
    /\ \A v \in Users : pc[v] = "idle"
    /\ nturns < MaxTurns
    /\ nturns < Len(Texts)
    /\ message_text = Texts[nturns + 1]
    /\ LET sessions == get_or_create_session(user_sessions, u)
           session == sessions[u]
       IN  /\ user_sessions' =
                [sessions EXCEPT ![u].messages = Append(@, Message("user", message_text))]
           /\ state' = [state EXCEPT ![u] =
                            [portfolio_data |-> session.portfolio_data,
                             current_analysis |-> session.current_analysis]]
    /\ pc' = [pc EXCEPT ![u] = "process_message"]
    /\ turn' = [turn EXCEPT ![u] = [NoTurn EXCEPT !.incoming = Some(message_text)]]
    /\ nturns' = nturns + 1
    /\ UNCHANGED <<sent, ledger, fn_in, fn_out>>

\* str.upper() on the command arguments below.
Upper(s) ==
    CASE s = "aapl" -> "AAPL"
      [] s = "msft" -> "MSFT"
      [] OTHER      -> s

\* context.args of an /analyze update: none, or one symbol.
CommandArgs == {<<>>, <<"aapl">>}

\* Lines 357-365 and 379-386: a command handler appends its own user message
\* and then calls process_telegram_message(update, context), which appends
\* update.message.text (lines 297-307) and runs the graph.
CommandTurn(u, synthetic, message_text) ==
    /\ \A v \in Users : pc[v] = "idle"
    /\ nturns < MaxTurns
    /\ LET sessions == get_or_create_session(user_sessions, u)
           session == sessions[u]
       IN  /\ user_sessions' =
                [sessions EXCEPT ![u].messages =
                    Append(Append(@, Message("user", synthetic)),
                           Message("user", message_text))]
           /\ state' = [state EXCEPT ![u] =
                            [portfolio_data |-> session.portfolio_data,
                             current_analysis |-> session.current_analysis]]
    /\ pc' = [pc EXCEPT ![u] = "process_message"]
    /\ turn' = [turn EXCEPT ![u] = [NoTurn EXCEPT !.incoming = Some(message_text),
                                                  !.synthetic = Some(synthetic)]]
    /\ nturns' = nturns + 1
    /\ UNCHANGED <<sent, ledger, fn_in, fn_out>>

\* Lines 352-365.
PortfolioCommand(u) ==
    CommandTurn(u, "Show me my portfolio summary", "/portfolio")

\* Lines 367-386. With no argument the handler replies with the usage line
\* and returns; the session has been created by then (line 370).
AnalyzeCommand(u, args) ==
    IF args = <<>> THEN
        /\ \A v \in Users : pc[v] = "idle"
        /\ nturns < MaxTurns
        /\ user_sessions' = get_or_create_session(user_sessions, u)
        /\ sent' = [sent EXCEPT ![u] =
                      Append(@, "Please provide a stock symbol. Usage: /analyze AAPL")]
        /\ turn' = [turn EXCEPT ![u] = NoTurn]
        /\ nturns' = nturns + 1
        /\ UNCHANGED <<pc, state, ledger, fn_in, fn_out>>
    ELSE
        CommandTurn(u, "Analyze " \o Upper(args[1]), "/analyze " \o args[1])

\* Lines 70-121, then the conditional edge.
ProcessMessage(u) ==
    /\ pc[u] = "process_message"
    /\ \E reply \in ClassifierReplies :
          LET session == user_sessions[u]
              user_context == process_message(session.user_context, reply)
          IN  /\ user_sessions' = [user_sessions EXCEPT ![u].user_context = user_context]
              /\ pc' = [pc EXCEPT ![u] = should_fetch_portfolio(user_context)]
              /\ turn' = [turn EXCEPT
                            ![u].steps = Append(@, "process_message"),
                            ![u].read = Some(session.messages[Len(session.messages)].content),
                            ![u].reply = Some(reply)]
    /\ UNCHANGED <<state, sent, ledger, nturns, fn_in, fn_out>>

\* FetchPortfolio without the try/except of lines 134 and 141: the
\* ZeroDivisionError leaves the graph, graph.ainvoke raises, and the handler
\* (lines 322-324) ends the turn with its own message.
FetchPortfolioUncaught(u) ==
    /\ pc[u] = "fetch_portfolio"
    /\ LET n == Len(get_portfolio_data(ledger).holdings)
       IN  \E fetched \in [1..n -> Opt(Quotes)], numeric \in Numerics :
              LET r == update_portfolio_with_market_data(get_portfolio_data(ledger),
                                                         fetched, numeric)
              IN  /\ state' = [state EXCEPT ![u].portfolio_data =
                                    IF r.raised THEN @ ELSE Some(r.portfolio)]
                  /\ pc' = [pc EXCEPT ![u] =
                                IF r.raised THEN "idle" ELSE "analyze_portfolio"]
                  /\ sent' = [sent EXCEPT ![u] =
                                IF r.raised
                                THEN Append(@, "Sorry, I encountered an error. Please try again.")
                                ELSE @]
                  /\ turn' = [turn EXCEPT ![u].steps = Append(@, "fetch_portfolio")]
    /\ UNCHANGED <<user_sessions, ledger, nturns, fn_in, fn_out>>

\* Lines 132-145.
FetchPortfolio(u) ==
    /\ pc[u] = "fetch_portfolio"
    /\ LET n == Len(get_portfolio_data(ledger).holdings)
       IN  \E fetched \in [1..n -> Opt(Quotes)], numeric \in Numerics :
              /\ state' = [state EXCEPT ![u].portfolio_data =
                                fetch_portfolio(ledger, fetched, numeric)]
              /\ turn' = [turn EXCEPT
                            ![u].steps = Append(@, "fetch_portfolio"),
                            ![u].quoted = Some({get_portfolio_data(ledger).holdings[i].symbol :
                                                  i \in {j \in 1..n : ~IsNone(fetched[j])}})]
    /\ pc' = [pc EXCEPT ![u] = "analyze_portfolio"]
    /\ UNCHANGED <<user_sessions, sent, ledger, nturns, fn_in, fn_out>>

\* AnalyzePortfolio treating a missing snapshot as a failure: the Analysis
\* Result is cleared as in the except branch (lines 171-173).
AnalyzePortfolioClearing(u) ==
    /\ pc[u] = "analyze_portfolio"
    /\ LET session == user_sessions[u]
           symbols == Get(session.user_context.symbols, SymList(<<>>))
       IN  IF IsNone(state[u].portfolio_data) THEN
               /\ state' = [state EXCEPT ![u].current_analysis = None]
               /\ turn' = [turn EXCEPT ![u].steps = Append(@, "analyze_portfolio")]
               /\ UNCHANGED user_sessions
           ELSE IF ~symbols.iter THEN
               \* iterating the number raises TypeError: lines 171-173
               /\ state' = [state EXCEPT ![u].current_analysis = None]
               /\ turn' = [turn EXCEPT ![u].steps = Append(@, "analyze_portfolio")]
               /\ UNCHANGED user_sessions
           ELSE
               LET portfolio == Val(state[u].portfolio_data)
                   symbols_to_analyze == SymbolsToAnalyze(portfolio, session.user_context)
               IN  \E results \in [1..Len(symbols_to_analyze) -> SymbolResults] :
                      LET analyses == Analyses(portfolio, symbols_to_analyze, results)
                      IN  /\ IF Len(symbols_to_analyze) > 0 THEN
                                 /\ state' = [state EXCEPT
                                                 ![u].current_analysis = Some(analyses[1])]
                                 /\ user_sessions' =
                                       [user_sessions EXCEPT
                                           ![u].user_context.all_analyses = Some(analyses)]
                             ELSE UNCHANGED <<state, user_sessions>>
                          /\ turn' = [turn EXCEPT
                                        ![u].steps = Append(@, "analyze_portfolio"),
                                        ![u].analysed = Some(analyses)]
    /\ pc' = [pc EXCEPT ![u] = "generate_response"]
    /\ UNCHANGED <<sent, ledger, nturns, fn_in, fn_out>>

\* Lines 147-175.
AnalyzePortfolio(u) ==
    /\ pc[u] = "analyze_portfolio"
    /\ LET session == user_sessions[u]
           symbols == Get(session.user_context.symbols, SymList(<<>>))
       IN  IF IsNone(state[u].portfolio_data) THEN
               /\ turn' = [turn EXCEPT ![u].steps = Append(@, "analyze_portfolio")]
               /\ UNCHANGED <<state, user_sessions>>
           ELSE IF ~symbols.iter THEN
               \* iterating the number raises TypeError: lines 171-173
               /\ state' = [state EXCEPT ![u].current_analysis = None]
               /\ turn' = [turn EXCEPT ![u].steps = Append(@, "analyze_portfolio")]
               /\ UNCHANGED user_sessions
           ELSE
               LET portfolio == Val(state[u].portfolio_data)
                   symbols_to_analyze == SymbolsToAnalyze(portfolio, session.user_context)
               IN  \E results \in [1..Len(symbols_to_analyze) -> SymbolResults] :
                      LET analyses == Analyses(portfolio, symbols_to_analyze, results)
                      IN  /\ IF Len(symbols_to_analyze) > 0 THEN
                                 /\ state' = [state EXCEPT
                                                 ![u].current_analysis = Some(analyses[1])]
                                 /\ user_sessions' =
                                       [user_sessions EXCEPT
                                           ![u].user_context.all_analyses = Some(analyses)]
                             ELSE UNCHANGED <<state, user_sessions>>
                          /\ turn' = [turn EXCEPT
                                        ![u].steps = Append(@, "analyze_portfolio"),
                                        ![u].analysed = Some(analyses)]
    /\ pc' = [pc EXCEPT ![u] = "generate_response"]
    /\ UNCHANGED <<sent, ledger, nturns, fn_in, fn_out>>

\* GenerateResponse with an except branch that only logs.
GenerateResponseSilent(u) ==
    /\ pc[u] = "generate_response"
    /\ \E oracle_ok \in BOOLEAN :
          LET session == user_sessions[u]
              raises == ContextRaises(state[u].portfolio_data)
              messages == IF ~raises /\ oracle_ok
                          THEN Append(session.messages, Message("assistant", Reply))
                          ELSE session.messages
              latest_message == messages[Len(messages)]
          IN  /\ user_sessions' = [user_sessions EXCEPT ![u] =
                    [messages |-> messages,
                     portfolio_data |-> state[u].portfolio_data,
                     current_analysis |-> state[u].current_analysis,
                     user_context |-> session.user_context,
                     last_action |-> session.last_action]]
              /\ sent' = [sent EXCEPT ![u] =
                            IF latest_message.role = "assistant"
                            THEN Append(@, latest_message.content) ELSE @]
              /\ turn' = [turn EXCEPT
                    ![u].steps = Append(@, "generate_response"),
                    ![u].synth = IF raises THEN "not_called"
                                 ELSE IF oracle_ok THEN "ok" ELSE "failed"]
    /\ pc' = [pc EXCEPT ![u] = "idle"]
    /\ state' = [state EXCEPT ![u] = IdleState]
    /\ UNCHANGED <<ledger, nturns, fn_in, fn_out>>

\* Lines 177-280, then lines 313-320 of the handler: the result replaces the
\* session and its last message is handed to reply_text. oracle_ok says
\* whether llm.ainvoke would return.
GenerateResponse(u) ==
    /\ pc[u] = "generate_response"
    /\ \E oracle_ok \in BOOLEAN :
          LET session == user_sessions[u]
              raises == ContextRaises(state[u].portfolio_data)
              content == IF ~raises /\ oracle_ok THEN Reply ELSE Apology
              messages == Append(session.messages, Message("assistant", content))
              latest_message == messages[Len(messages)]
          IN  /\ user_sessions' = [user_sessions EXCEPT ![u] =
                    [messages |-> messages,
                     portfolio_data |-> state[u].portfolio_data,
                     current_analysis |-> state[u].current_analysis,
                     user_context |-> session.user_context,
                     last_action |-> session.last_action]]
              /\ sent' = [sent EXCEPT ![u] =
                            IF latest_message.role = "assistant"
                            THEN Append(@, latest_message.content) ELSE @]
              /\ turn' = [turn EXCEPT
                    ![u].steps = Append(@, "generate_response"),
                    ![u].synth = IF raises THEN "not_called"
                                 ELSE IF oracle_ok THEN "ok" ELSE "failed",
                    ![u].prompt =
                        IF raises THEN None
                        ELSE Some([message |-> session.messages[Len(session.messages)].content,
                                   intent |-> Get(session.user_context.intent, "general_question"),
                                   portfolio |-> state[u].portfolio_data,
                                   analysis |-> state[u].current_analysis])]
    /\ pc' = [pc EXCEPT ![u] = "idle"]
    /\ state' = [state EXCEPT ![u] = IdleState]
    /\ UNCHANGED <<ledger, nturns, fn_in, fn_out>>

Next ==
    \E u \in Users :
        \/ \E message_text \in {Texts[i] : i \in 1..Len(Texts)} :
              ProcessTelegramMessage(u, message_text)
        \/ ProcessMessage(u)
        \/ FetchPortfolio(u)
        \/ AnalyzePortfolio(u)
        \/ GenerateResponse(u)

Spec == Init /\ [][Next]_vars

\* Lines 402-405: the text handler together with the /portfolio and /analyze
\* handlers. (/start replies with a fixed text and touches no state.)
NextCommands ==
    \E u \in Users :
        \/ \E message_text \in {Texts[i] : i \in 1..Len(Texts)} :
              ProcessTelegramMessage(u, message_text)
        \/ PortfolioCommand(u)
        \/ \E args \in CommandArgs : AnalyzeCommand(u, args)
        \/ ProcessMessage(u)
        \/ FetchPortfolio(u)
        \/ AnalyzePortfolio(u)
        \/ GenerateResponse(u)

SpecCommands == Init /\ [][NextCommands]_vars

\* Two users, for the runs in which turns of different users overlap.
TwoUsers == {"u1", "u2"}

\* The n-th message of a run comes from u1 when n is odd and from u2 when n
\* is even, and its text names its sender.
Sender(n) == IF n % 2 = 1 THEN "u1" ELSE "u2"

UserText(u, n) == u \o ": " \o Texts[n]

InitUsers ==
    /\ user_sessions = [u \in {} |-> NewSession]
    /\ pc = [u \in TwoUsers |-> "idle"]
    /\ state = [u \in TwoUsers |-> IdleState]
    /\ turn = [u \in TwoUsers |-> NoTurn]
    /\ sent = [u \in TwoUsers |-> <<>>]
    /\ ledger \in Ledgers
    /\ nturns = 0
    /\ fn_in = None
    /\ fn_out = None

\* Lines 296-311 when handlers of different users may overlap: a message of
\* u is accepted as soon as u has no turn in the pipeline, whatever the other
\* users' turns are doing. The Application of line 399 runs one handler at a
\* time, which is the case where the other users are idle as well.
ProcessTelegramMessageOverlapping(u, message_text) ==
    /\ pc[u] = "idle"
    /\ nturns < MaxTurns
    /\ nturns < Len(Texts)
    /\ u = Sender(nturns + 1)
    /\ message_text = UserText(u, nturns + 1)
    /\ LET sessions == get_or_create_session(user_sessions, u)
           session == sessions[u]
       IN  /\ user_sessions' =
                [sessions EXCEPT ![u].messages = Append(@, Message("user", message_text))]
           /\ state' = [state EXCEPT ![u] =
                            [portfolio_data |-> session.portfolio_data,
                             current_analysis |-> session.current_analysis]]
    /\ pc' = [pc EXCEPT ![u] = "process_message"]
    /\ turn' = [turn EXCEPT ![u] = [NoTurn EXCEPT !.incoming = Some(message_text)]]
    /\ nturns' = nturns + 1
    /\ UNCHANGED <<sent, ledger, fn_in, fn_out>>

NextUsers ==
    \E u \in TwoUsers :
        \/ \E n \in 1..Len(Texts) : ProcessTelegramMessageOverlapping(u, UserText(u, n))
        \/ ProcessMessage(u)
        \/ FetchPortfolio(u)
        \/ AnalyzePortfolio(u)
        \/ GenerateResponse(u)

SpecUsers == InitUsers /\ [][NextUsers]_vars

\* The step of the node that is about to run.
GraphStep(u) ==
    ProcessMessage(u) \/ FetchPortfolio(u) \/ AnalyzePortfolio(u) \/ GenerateResponse(u)

----------------------------------------------------------------------------
(* The enricher and the analyzer applied on their own, to more inputs than *)
(* the orchestrator's runs supply                                          *)

MaxNews == 3

\* The orchestrator at rest, with no ledger.
Dormant ==
    /\ user_sessions = [u \in {} |-> NewSession]
    /\ pc = [u \in Users |-> "idle"]
    /\ state = [u \in Users |-> IdleState]
    /\ turn = [u \in Users |-> NoTurn]
    /\ sent = [u \in Users |-> <<>>]
    /\ ledger = MissingFile
    /\ nturns = 0

EnrichLedgers ==
    { File(<<>>),
      File(<<Row("AAPL", "2", "4")>>),
      File(<<Row("AAPL", "2", "4"), Row("tsla", "1", "2"), Row("MSFT", "1", "1")>>),
      File(<<Row("AAPL", "1", "4"), Row("tsla", "2", "0"), Row("AAPL", "2", "2")>>) }

EnrichQuotes == {MarketData(3, -8), MarketData(4, 0), MarketData(6, 8)}

InitEnrich ==
    /\ Dormant
    /\ \E file \in EnrichLedgers :
          LET portfolio == get_portfolio_data(file)
          IN  fn_in \in { Some([portfolio |-> portfolio, fetched |-> f, numeric |-> n]) :
                            f \in [1..Len(portfolio.holdings) -> Opt(EnrichQuotes)],
                            n \in Numerics }
    /\ fn_out = None

\* update_portfolio_with_market_data(portfolio), with the keys of the dict it
\* built; portfolio is None when the call raised instead of returning.
ApplyEnrich ==
    /\ ~IsNone(fn_in)
    /\ IsNone(fn_out)
    /\ LET in == Val(fn_in)
           symbols == [i \in 1..Len(in.portfolio.holdings) |->
                          in.portfolio.holdings[i].symbol]
           r == update_portfolio_with_market_data(in.portfolio, in.fetched, in.numeric)
       IN  fn_out' = Some([quoted |-> DOMAIN get_multiple_market_data(symbols, in.fetched),
                           raised |-> r.raised,
                           portfolio |-> IF r.raised THEN None
                                         ELSE Some(r.portfolio)])
    /\ UNCHANGED <<user_sessions, pc, state, turn, sent, ledger, nturns, fn_in>>

SpecEnrich == InitEnrich /\ [][ApplyEnrich]_vars

ChangePercents == {-8, -5, 0, 5, 8}

RECURSIVE SeqsUpTo(_, _)
SeqsUpTo(S, n) ==
    IF n = 0 THEN {<<>>}
    ELSE LET shorter == SeqsUpTo(S, n - 1)
         IN  shorter \cup {Append(q, x) : q \in shorter, x \in S}

GainLossPercents == {Pct(-25), Pct(-20), Pct(0), Pct(20), Pct(25), PctInf}

\* The holding argument: none, an unenriched holding, an enriched one.
HoldingArguments ==
    Opt({ [PortfolioHolding("AAPL", 2, 4) EXCEPT !.gain_loss_percent = g] :
            g \in Opt(GainLossPercents) })

InitAnalyze ==
    /\ Dormant
    /\ fn_in \in { Some([symbol |-> "AAPL", holding |-> h, market_data |-> m,
                         news_items |-> n]) :
                     h \in HoldingArguments,
                     m \in Opt({MarketData(6, c) : c \in ChangePercents}),
                     n \in SeqsUpTo({NewsItem(x) : x \in SentimentIndicator}, MaxNews) }
    /\ fn_out = None

\* analyze_symbol(symbol, holding)
ApplyAnalyze ==
    /\ ~IsNone(fn_in)
    /\ IsNone(fn_out)
    /\ LET in == Val(fn_in)
       IN  fn_out' = Some(analyze_symbol(in.symbol, in.holding, in.market_data,
                                         in.news_items))
    /\ UNCHANGED <<user_sessions, pc, state, turn, sent, ledger, nturns, fn_in>>

SpecAnalyze == InitAnalyze /\ [][ApplyAnalyze]_vars

\* How many times the engine is evaluated on the same arguments.
MaxEvaluations == 2

\* The arguments of _generate_recommendation, the sentiment given on its own.
InitRecommend ==
    /\ Dormant
    /\ fn_in \in { Some([market_data |-> m, sentiment |-> s, news |-> n,
                         holding |-> h]) :
                     m \in {MarketData(6, c) : c \in ChangePercents},
                     s \in SentimentIndicator,
                     n \in SeqsUpTo({NewsItem(x) : x \in SentimentIndicator}, 1),
                     h \in HoldingArguments }
    /\ fn_out = <<>>

\* _generate_recommendation(market_data, sentiment, news, holding): fn_out
\* collects the results of the successive evaluations.
ApplyRecommend ==
    /\ ~IsNone(fn_in)
    /\ Len(fn_out) < MaxEvaluations
    /\ LET in == Val(fn_in)
       IN  fn_out' = Append(fn_out,
                            generate_recommendation(in.market_data, in.sentiment,
                                                    in.news, in.holding))
    /\ UNCHANGED <<user_sessions, pc, state, turn, sent, ledger, nturns, fn_in>>

\* Between two evaluations the rest of the program goes on: a message comes
\* in and a session is created for it (lines 296-307).
SessionCreated(u) ==
    /\ Len(fn_out) = 1
    /\ u \notin DOMAIN user_sessions
    /\ user_sessions' =
          [get_or_create_session(user_sessions, u) EXCEPT
              ![u].messages = Append(@, Message("user", Texts[1]))]
    /\ UNCHANGED <<pc, state, turn, sent, ledger, nturns, fn_in, fn_out>>

NextRecommend == ApplyRecommend \/ \E u \in Users : SessionCreated(u)

SpecRecommend == InitRecommend /\ [][NextRecommend]_vars

\* The longest ledger file read on its own.
MaxRows == 2

\* The rows csv.DictReader may hand to the loop. A row shorter than the
\* header has NoValue in the fields it lacks, which are its last ones.
LedgerRows ==
    { Row(s, q, a) :
        s \in {"AAPL", "tsla", "   "},
        q \in {"1", "abc", NoValue},
        a \in {"2", "abc", NoValue} }
    \ { Row(s, NoValue, a) : s \in {"AAPL", "tsla", "   "}, a \in {"2", "abc"} }

InitLedger ==
    /\ Dormant
    /\ fn_in \in {Some(MissingFile)}
                 \cup {Some(File(rows)) : rows \in SeqsUpTo(LedgerRows, MaxRows)}
    /\ fn_out = None

\* get_portfolio_data()
ApplyLedger ==
    /\ ~IsNone(fn_in)
    /\ IsNone(fn_out)
    /\ fn_out' = Some(get_portfolio_data(Val(fn_in)))
    /\ UNCHANGED <<user_sessions, pc, state, turn, sent, ledger, nturns, fn_in>>

SpecLedger == InitLedger /\ [][ApplyLedger]_vars

\* The lists of items a source may build: up to MaxNews items.
ItemLists(source) ==
    SeqsUpTo({SourcedItem(x, source) : x \in {"positive", "negative"}}, MaxNews)

PrimaryOutcomes ==
    { [kind |-> "ok", items |-> q] : q \in ItemLists("newsapi") }
    \cup { [kind |-> "request_failed", items |-> <<>>] }
    \cup { [kind |-> "parse_error", items |-> q] : q \in ItemLists("newsapi") }

SecondaryOutcomes ==
    { [kind |-> "ok", items |-> q] : q \in ItemLists("yahoo") }
    \cup { [kind |-> "failed", items |-> <<>>] }

InitNews ==
    /\ Dormant
    /\ fn_in \in { Some([api_key |-> k, primary |-> p, secondary |-> y]) :
                     k \in BOOLEAN, p \in PrimaryOutcomes, y \in SecondaryOutcomes }
    /\ fn_out = None

\* get_stock_news(symbol)
ApplyNews ==
    /\ ~IsNone(fn_in)
    /\ IsNone(fn_out)
    /\ LET in == Val(fn_in)
       IN  fn_out' = Some(get_stock_news(in.api_key, in.primary, in.secondary))
    /\ UNCHANGED <<user_sessions, pc, state, turn, sent, ledger, nturns, fn_in>>

SpecNews == InitNews /\ [][ApplyNews]_vars

----------------------------------------------------------------------------
(* The claims                                                              *)

\* The last element of a non-empty sequence.
Last(q) == q[Len(q)]

HasSession(u) == u \in DOMAIN user_sessions

\* A turn of u has run to its end.
TurnDone(u) == pc[u] = "idle" /\ turn[u].steps # <<>>

\* The snapshot the turn of u carries: the graph's while it runs, the
\* session's once it is over.
Carried(u) ==
    IF pc[u] = "idle" THEN user_sessions[u].portfolio_data ELSE state[u].portfolio_data

\* C1: every turn, whatever the classification call, the ledger read, the
\* quote and news fetches and the analysis do, runs on to the Respond step and
\* ends with it: a node that is about to run can always run, each node hands
\* over to a later node of the graph, and a turn ends only by the step of
\* generate_response. (The graph has four nodes and no cycle, so a turn
\* whose nodes keep running reaches Respond and ends.)
C1_TurnReachesRespond ==
    /\ [](\A u \in Users : pc[u] # "idle" => ENABLED GraphStep(u))
    /\ [][\A u \in Users :
            /\ (pc[u] # "idle" /\ pc'[u] = "idle") => pc[u] = "generate_response"
            /\ pc[u] = "process_message" =>
                  pc'[u] \in {"process_message", "fetch_portfolio", "generate_response"}
            /\ pc[u] = "fetch_portfolio" =>
                  pc'[u] \in {"fetch_portfolio", "analyze_portfolio"}
            /\ pc[u] = "analyze_portfolio" =>
                  pc'[u] \in {"analyze_portfolio", "generate_response"}]_vars

\* A turn that ran all four nodes and ended with Respond although the
\* enrichment raised and the synthesis call raised.
C1_Witness ==
    \E u \in Users :
        /\ TurnDone(u)
        /\ turn[u].steps = <<"process_message", "fetch_portfolio",
                             "analyze_portfolio", "generate_response">>
        /\ IsNone(user_sessions[u].portfolio_data)
        /\ turn[u].synth = "failed"

\* C2: every run of the Respond step appends exactly one message, with role
\* assistant, to the session: the oracle's reply when the synthesis call
\* returned, the apology when it raised; that message is what reply_text is
\* given, so a finished turn leaves an assistant message last.
C2_RespondAppendsOneReply ==
    [][\A u \in Users :
        (pc[u] = "generate_response" /\ pc'[u] # "generate_response") =>
            LET before == user_sessions[u].messages
                after == user_sessions'[u].messages
            IN  /\ Len(after) = Len(before) + 1
                /\ SubSeq(after, 1, Len(before)) = before
                /\ Last(after).role = "assistant"
                /\ turn'[u].synth = "ok" => Last(after).content = Reply
                /\ turn'[u].synth = "failed" => Last(after).content = Apology
                /\ sent'[u] = Append(sent[u], Last(after).content)]_vars

\* A finished turn whose synthesis call raised and whose reply is the apology.
C2_Witness ==
    \E u \in Users :
        /\ TurnDone(u)
        /\ turn[u].synth = "failed"
        /\ Last(user_sessions[u].messages) = Message("assistant", Apology)
        /\ Last(sent[u]) = Apology

\* C3: the apology is the reply of a turn only when the synthesis call of
\* that turn raised.
C3_ApologyOnlyWhenSynthesisFails ==
    \A u \in Users :
        (TurnDone(u) /\ Last(user_sessions[u].messages).content = Apology)
            => turn[u].synth = "failed"

\* The node that ran, or is about to run, right after process_message.
AfterClassify(u) ==
    IF Len(turn[u].steps) >= 2 THEN turn[u].steps[2] ELSE pc[u]

\* Neither fetch_portfolio nor analyze_portfolio has run or is about to run
\* in the turn of u.
SkipsFetchAndAnalyze(u) ==
    /\ pc[u] \notin {"fetch_portfolio", "analyze_portfolio"}
    /\ \A i \in 1..Len(turn[u].steps) :
          turn[u].steps[i] \notin {"fetch_portfolio", "analyze_portfolio"}

\* C4: after Classify the next step is FetchPortfolio exactly when
\* requires_portfolio is set or the intent is portfolio_query or
\* stock_analysis; otherwise it is Respond, and neither FetchPortfolio nor
\* Analyze runs in the turn.
C4_RouteAfterClassify ==
    \A u \in Users :
        turn[u].steps # <<>> =>
            LET user_context == user_sessions[u].user_context
                wanted == \/ user_context.requires_portfolio = Some(TRUE)
                          \/ user_context.intent = Some("portfolio_query")
                          \/ user_context.intent = Some("stock_analysis")
            IN  /\ wanted <=> AfterClassify(u) = "fetch_portfolio"
                /\ ~wanted => /\ AfterClassify(u) = "generate_response"
                              /\ SkipsFetchAndAnalyze(u)

\* A finished turn classified stock_analysis with the flag unset, which ran
\* FetchPortfolio right after Classify.
C4_Witness ==
    \E u \in Users :
        /\ TurnDone(u)
        /\ user_sessions[u].user_context.intent = Some("stock_analysis")
        /\ user_sessions[u].user_context.requires_portfolio = Some(FALSE)
        /\ turn[u].steps[2] = "fetch_portfolio"

\* C5: when the classification call raises or its reply holds no parseable
\* record, the context is set to general_question, no symbols and
\* requires_portfolio false, and the turn goes from Classify straight to
\* Respond, with neither FetchPortfolio nor Analyze.
C5_FailedClassificationGoesToRespond ==
    \A u \in Users :
        (turn[u].steps # <<>>
         /\ Val(turn[u].reply).kind \in {"call_failed", "unparseable"}) =>
            /\ user_sessions[u].user_context.intent = Some("general_question")
            /\ user_sessions[u].user_context.symbols = Some(SymList(<<>>))
            /\ user_sessions[u].user_context.requires_portfolio = Some(FALSE)
            /\ AfterClassify(u) = "generate_response"
            /\ SkipsFetchAndAnalyze(u)

\* The second turn of a session, ended with its classification reply
\* unparseable, after a first turn that had fetched a snapshot.
C5_Witness ==
    \E u \in Users :
        /\ TurnDone(u)
        /\ Val(turn[u].reply).kind = "unparseable"
        /\ Len(user_sessions[u].messages) = 4
        /\ ~IsNone(user_sessions[u].portfolio_data)
        /\ turn[u].steps = <<"process_message", "generate_response">>

\* The three classification entries of the context of u.
Classified(u) ==
    [intent |-> user_sessions[u].user_context.intent,
     symbols |-> user_sessions[u].user_context.symbols,
     requires_portfolio |-> user_sessions[u].user_context.requires_portfolio]

\* C6 as stated: a parsed record that lacks any one of intent, symbols and
\* requires_portfolio makes the classifier fall back to the whole default
\* record, the fields that were present being dropped.
C6_WholeDefaultOnAbsentField ==
    \A u \in Users :
        (turn[u].steps # <<>>
         /\ Val(turn[u].reply).kind = "parsed"
         /\ \/ IsNone(Val(turn[u].reply).analysis.intent)
            \/ IsNone(Val(turn[u].reply).analysis.symbols)
            \/ IsNone(Val(turn[u].reply).analysis.requires_portfolio)) =>
            Classified(u) = [intent |-> Some("general_question"),
                             symbols |-> Some(SymList(<<>>)),
                             requires_portfolio |-> Some(FALSE)]

\* C6 amended: of a parsed record each absent field takes its own default
\* (general_question, no symbols, false) and each field that is present is
\* kept as the record gives it.
C6_DefaultPerAbsentField ==
    \A u \in Users :
        (turn[u].steps # <<>> /\ Val(turn[u].reply).kind = "parsed") =>
            LET analysis == Val(turn[u].reply).analysis
            IN  /\ Classified(u).intent =
                      IF IsNone(analysis.intent)
                      THEN Some("general_question") ELSE analysis.intent
                /\ Classified(u).symbols =
                      IF IsNone(analysis.symbols)
                      THEN Some(SymList(<<>>)) ELSE analysis.symbols
                /\ Classified(u).requires_portfolio =
                      IF IsNone(analysis.requires_portfolio)
                      THEN Some(FALSE) ELSE analysis.requires_portfolio

\* A record with the intent alone: the intent is kept, the other two entries
\* are the defaults, and the turn fetched the portfolio.
C6_Witness ==
    \E u \in Users :
        /\ TurnDone(u)
        /\ Val(turn[u].reply) = Parsed(Some("portfolio_query"), None, None)
        /\ Classified(u) = [intent |-> Some("portfolio_query"),
                            symbols |-> Some(SymList(<<>>)),
                            requires_portfolio |-> Some(FALSE)]
        /\ turn[u].steps[2] = "fetch_portfolio"

\* The four derived fields of a holding.
Derived(holding) ==
    <<holding.current_price, holding.value, holding.gain_loss,
      holding.gain_loss_percent>>

\* C7: the quote mapping holds exactly the symbols whose fetch succeeded;
\* in the snapshot that enrichment returns every holding whose symbol is in
\* the mapping has current_price, value, gain_loss and gain_loss_percent set
\* and every other holding has all four absent.
C7_PartialBatchEnrichment ==
    ~IsNone(fn_out) =>
        LET in == Val(fn_in).portfolio.holdings
            fetched == Val(fn_in).fetched
            out == Val(fn_out)
        IN  /\ out.quoted = {in[i].symbol :
                               i \in {j \in 1..Len(in) : ~IsNone(fetched[j])}}
            /\ ~IsNone(out.portfolio) =>
                  LET holdings == Val(out.portfolio).holdings
                  IN  /\ Len(holdings) = Len(in)
                      /\ \A i \in 1..Len(holdings) :
                            IF holdings[i].symbol \in out.quoted
                            THEN \A k \in 1..4 : ~IsNone(Derived(holdings[i])[k])
                            ELSE \A k \in 1..4 : IsNone(Derived(holdings[i])[k])

\* Three holdings of which the fetch of the second failed: the first and the
\* third come back enriched, the second with all four fields absent.
C7_Witness ==
    /\ ~IsNone(fn_out)
    /\ ~IsNone(Val(fn_out).portfolio)
    /\ Val(fn_out).quoted = {"AAPL", "MSFT"}
    /\ LET holdings == Val(Val(fn_out).portfolio).holdings
       IN  /\ Len(holdings) = 3
           /\ holdings[2].symbol = "TSLA"
           /\ Derived(holdings[2]) = <<None, None, None, None>>
           /\ holdings[1].value = Some(12)
           /\ holdings[3].gain_loss = Some(2)

\* The holdings of a snapshot that enrichment has filled in.
Enriched(portfolio) ==
    {i \in 1..Len(portfolio.holdings) : ~IsNone(portfolio.holdings[i].value)}

\* C8: in the snapshot that enrichment returns, total_value is the sum of
\* value and total_gain_loss the sum of gain_loss over the enriched
\* holdings; unenriched holdings add nothing, and both are 0 when no
\* holding is enriched.
C8_TotalsSumEnrichedHoldings ==
    (~IsNone(fn_out) /\ ~IsNone(Val(fn_out).portfolio)) =>
        LET portfolio == Val(Val(fn_out).portfolio)
            of(field) == [i \in 1..Len(portfolio.holdings) |->
                            IF i \in Enriched(portfolio)
                            THEN Val(portfolio.holdings[i][field]) ELSE 0]
        IN  /\ portfolio.total_value = SumSeq(of("value"))
            /\ portfolio.total_gain_loss = SumSeq(of("gain_loss"))
            /\ Enriched(portfolio) = {} =>
                  /\ portfolio.total_value = 0
                  /\ portfolio.total_gain_loss = 0

\* Three holdings, two of them enriched: the totals are the sums over those
\* two and the third, worth 2 at cost, adds nothing.
C8_Witness ==
    /\ ~IsNone(fn_out)
    /\ ~IsNone(Val(fn_out).portfolio)
    /\ LET portfolio == Val(Val(fn_out).portfolio)
       IN  /\ Enriched(portfolio) = {1, 3}
           /\ portfolio.holdings[2].avg_cost = 2
           /\ portfolio.total_value = 12 + 3
           /\ portfolio.total_gain_loss = 4 + 2

\* The fetch_portfolio node of the turn of u has run.
Fetched(u) ==
    \E i \in 1..Len(turn[u].steps) : turn[u].steps[i] = "fetch_portfolio"

\* The ledger holds a holding bought at avg_cost = 0 whose quote the fetch of
\* the turn of u obtained.
ZeroCostQuoted(u) ==
    /\ Fetched(u)
    /\ \E i \in 1..Len(get_portfolio_data(ledger).holdings) :
          /\ get_portfolio_data(ledger).holdings[i].avg_cost = 0
          /\ get_portfolio_data(ledger).holdings[i].symbol \in Val(turn[u].quoted)

C10_ConfidenceWithinBounds ==
    (~IsNone(fn_out) /\ ~IsNone(Val(fn_in).market_data)) =>
        /\ ConfLe(Conf(10), Val(fn_out).confidence)
        /\ ConfLe(Val(fn_out).confidence, Conf(100))

\* Up 8% with positive news and a holding 25% up: the three rules have all
\* adjusted, the action is hold and the confidence 0.7999999999999999.
C10_Witness ==
    /\ ~IsNone(fn_out)
    /\ ~IsNone(Val(fn_in).market_data)
    /\ Val(Val(fn_in).market_data).change_percent = 8
    /\ Len(Val(fn_in).news_items) = 3
    /\ Val(fn_out).sentiment = "positive"
    /\ ~IsNone(Val(fn_in).holding)
    /\ Val(Val(fn_in).holding).gain_loss_percent = Some(Pct(25))
    /\ Val(fn_out).recommendation = "hold"
    /\ Val(fn_out).confidence = [c |-> 80, e |-> -1]

\* The holding argument of the analysis in fn_in makes the third rule
\* dampen: a holding is given and its gain_loss_percent is above 20.
LargeGain ==
    /\ ~IsNone(Val(fn_in).holding)
    /\ ~IsNone(Val(Val(fn_in).holding).gain_loss_percent)
    /\ PctGt(Val(Val(Val(fn_in).holding).gain_loss_percent), 20)

\* The confidence x is the decimal c/100 to within one unit in the last
\* place of binary64.
IsDecimal(x, c) == x.c = c /\ x.e \in {-1, 0, 1}

\* C11: the sentiment step. With positive sentiment a base BUY stays BUY at
\* 0.7 + 0.2 and a base SELL becomes HOLD at 0.7 - 0.2; with negative
\* sentiment a base SELL stays SELL at 0.7 + 0.2 and a base BUY becomes HOLD
\* at 0.7 - 0.2; neutral sentiment, and a base HOLD, leave the base action
\* and the base confidence as they are. (Stated where the holding rule does
\* not dampen, so that the result shows the sentiment step.)
C11_SentimentAdjustment ==
    (~IsNone(fn_out) /\ ~IsNone(Val(fn_in).market_data) /\ ~LargeGain) =>
        LET change_percent == Val(Val(fn_in).market_data).change_percent
            base == IF change_percent > 5 THEN "buy"
                    ELSE IF change_percent < -5 THEN "sell" ELSE "hold"
            sentiment == Val(fn_out).sentiment
            action == Val(fn_out).recommendation
            confidence == Val(fn_out).confidence
        IN  /\ (base = "buy" /\ sentiment = "positive") =>
                  action = "buy" /\ IsDecimal(confidence, 90)
            /\ (base = "sell" /\ sentiment = "positive") =>
                  action = "hold" /\ IsDecimal(confidence, 50)
            /\ (base = "sell" /\ sentiment = "negative") =>
                  action = "sell" /\ IsDecimal(confidence, 90)
            /\ (base = "buy" /\ sentiment = "negative") =>
                  action = "hold" /\ IsDecimal(confidence, 50)
            /\ (base # "hold" /\ sentiment = "neutral") =>
                  action = base /\ confidence = Conf(70)
            /\ base = "hold" => action = "hold" /\ confidence = Conf(50)

\* Up 8% with positive news and no holding: BUY at 0.7 + 0.2.
C11_Witness ==
    /\ ~IsNone(fn_out)
    /\ ~IsNone(Val(fn_in).market_data)
    /\ Val(Val(fn_in).market_data).change_percent = 8
    /\ IsNone(Val(fn_in).holding)
    /\ Val(fn_out).sentiment = "positive"
    /\ Val(fn_out).recommendation = "buy"
    /\ IsDecimal(Val(fn_out).confidence, 90)

\* C12: the holding step. When the holding's gain_loss_percent is above 20
\* and the action after the sentiment step is BUY, the final action is HOLD
\* and the confidence is 0.10 lower, not below 0.3; in every other case (no
\* holding, an unenriched one, an action other than BUY, a loss below -20, a
\* gain within [-20, 20]) the step leaves action and confidence as the
\* sentiment step gave them.
C12_HoldingDampening ==
    (~IsNone(fn_out) /\ ~IsNone(Val(fn_in).market_data)) =>
        LET before == AdjustForSentiment(
                          BaseRecommendation(Val(Val(fn_in).market_data).change_percent),
                          Val(fn_out).sentiment)
            action == Val(fn_out).recommendation
            confidence == Val(fn_out).confidence
        IN  IF LargeGain /\ before.action = "buy"
            THEN /\ action = "hold"
                 /\ confidence.c = IF before.confidence.c - 10 < 30 THEN 30
                                   ELSE before.confidence.c - 10
                 /\ confidence.e \in {-1, 0, 1}
            ELSE /\ action = before.action
                 /\ confidence = before.confidence

\* Up 8% with one positive news item and a holding 25% up: HOLD at 0.9 - 0.1.
C12_Witness ==
    /\ ~IsNone(fn_out)
    /\ ~IsNone(Val(fn_in).market_data)
    /\ Val(Val(fn_in).market_data).change_percent = 8
    /\ Val(fn_in).news_items = <<NewsItem("positive")>>
    /\ LargeGain
    /\ Val(Val(Val(fn_in).holding).gain_loss_percent) = Pct(25)
    /\ Val(fn_out).recommendation = "hold"
    /\ IsDecimal(Val(fn_out).confidence, 80)

WellFormed(row) ==
    /\ StripUpper(row.Symbol) # ""
    /\ ParseFloat(row.Quantity).err = "ok"
    /\ ParseFloat(row.AverageCost).err = "ok"

\* One unenriched holding per well-formed row, in file order.
RECURSIVE HoldingsOf(_)
HoldingsOf(rows) ==
    IF rows = <<>> THEN <<>>
    ELSE IF WellFormed(Head(rows))
        THEN <<PortfolioHolding(StripUpper(Head(rows).Symbol),
                                ParseFloat(Head(rows).Quantity).v,
                                ParseFloat(Head(rows).AverageCost).v)>>
             \o HoldingsOf(Tail(rows))
    ELSE HoldingsOf(Tail(rows))

\* C20: the ledger reader always returns a snapshot. For a missing file it
\* has no holdings and total_value, total_gain_loss and
\* total_gain_loss_percent are 0; for an existing file its holdings are, in
\* file order, one unenriched holding per row with a non-blank symbol and a
\* parseable quantity and average cost, the other rows being skipped without
\* any effect on the rest.
C20_LedgerReaderSkipsBadRows ==
    ~IsNone(fn_out) =>
        /\ Val(fn_out).total_value = 0
        /\ Val(fn_out).total_gain_loss = 0
        /\ Val(fn_out).total_gain_loss_percent.num = 0
        /\ Val(fn_out).holdings =
              IF Val(fn_in).exists THEN HoldingsOf(Val(fn_in).rows) ELSE <<>>

\* C14: a snapshot does not outlive its turn. In a turn that did not run
\* FetchPortfolio, the context block Respond builds holds no portfolio
\* snapshot.
C14_SnapshotNotCachedAcrossTurns ==
    \A u \in Users :
        (TurnDone(u) /\ ~Fetched(u) /\ ~IsNone(turn[u].prompt)) =>
            IsNone(Val(turn[u].prompt).portfolio)

\* C15: the Analysis Result in the context block Respond builds is the first
\* of the list the Analyze step of the same turn built; when Analyze did not
\* run, was a no-op or built an empty list, the block holds no analysis.
C15_AnalysisFromSameTurn ==
    \A u \in Users :
        (TurnDone(u) /\ ~IsNone(turn[u].prompt)
         /\ ~IsNone(Val(turn[u].prompt).analysis)) =>
            /\ ~IsNone(turn[u].analysed)
            /\ Val(turn[u].analysed) # <<>>
            /\ Val(turn[u].prompt).analysis = Some(Val(turn[u].analysed)[1])

\* C16: a symbol whose quote fetch fails during Analyze gets no Analysis
\* Result: every result in the list the turn built, and so the primary one,
\* is for a symbol whose quote was fetched.
C16_NoResultWithoutQuote ==
    \A u \in Users :
        ~IsNone(turn[u].analysed) =>
            \A i \in 1..Len(Val(turn[u].analysed)) :
                ~IsNone(Val(turn[u].analysed)[i].change_percent)

\* C17: a /portfolio or /analyze SYMBOL command stands in the session as one
\* synthetic user turn. The message Classify reads and the message Respond
\* answers are the synthetic text, and the turn ends with the session's last
\* two messages being that user turn and the assistant's reply to it, after
\* the previous turn's reply (if there was a previous turn).
C17_CommandIsOneSyntheticTurn ==
    \A u \in Users :
        ~IsNone(turn[u].synthetic) =>
            /\ ~IsNone(turn[u].read) => turn[u].read = turn[u].synthetic
            /\ ~IsNone(turn[u].prompt) =>
                  Val(turn[u].prompt).message = Val(turn[u].synthetic)
            /\ TurnDone(u) =>
                  LET messages == user_sessions[u].messages
                      n == Len(messages)
                  IN  /\ messages[n].role = "assistant"
                      /\ messages[n - 1] = Message("user", Val(turn[u].synthetic))
                      /\ n > 2 => messages[n - 2].role = "assistant"

\* C19: turns of a session do not interleave. While a turn is in the
\* pipeline no user message is appended to its session and no other update
\* takes its place: the only change to the messages is the one assistant
\* message of Respond. So the message Classify read, the message Respond
\* answered and the reply sent back belong to the update that started the
\* turn.
C19_TurnsDoNotInterleave ==
    /\ [](\A u \in Users :
            /\ ~IsNone(turn[u].read) => turn[u].read = turn[u].incoming
            /\ ~IsNone(turn[u].prompt) =>
                  Some(Val(turn[u].prompt).message) = turn[u].incoming
            /\ TurnDone(u) =>
                  LET messages == user_sessions[u].messages
                  IN  /\ Last(messages).role = "assistant"
                      /\ messages[Len(messages) - 1] =
                            Message("user", Val(turn[u].incoming))
                      /\ Last(sent[u]) = Last(messages).content)
    /\ [][\A u \in Users :
            pc[u] # "idle" =>
                /\ turn'[u].incoming = turn[u].incoming
                /\ \/ user_sessions'[u].messages = user_sessions[u].messages
                   \/ /\ pc[u] = "generate_response"
                      /\ Len(user_sessions'[u].messages) =
                            Len(user_sessions[u].messages) + 1
                      /\ SubSeq(user_sessions'[u].messages, 1,
                                Len(user_sessions[u].messages)) =
                            user_sessions[u].messages
                      /\ Last(user_sessions'[u].messages).role = "assistant"]_vars

\* The second message of a session, through all four nodes: read by Classify,
\* answered by Respond, and the reply sent, with the first turn's two
\* messages before it.
C19_Witness ==
    \E u \in Users :
        /\ TurnDone(u)
        /\ turn[u].incoming = Some(Texts[2])
        /\ turn[u].read = Some(Texts[2])
        /\ Len(turn[u].steps) = 4
        /\ turn[u].synth = "ok"
        /\ Len(user_sessions[u].messages) = 4
        /\ user_sessions[u].messages[3] = Message("user", Texts[2])
        /\ Last(sent[u]) = Reply

\* Everything the program holds for user v.
Held(v) ==
    [session |-> IF v \in DOMAIN user_sessions THEN Some(user_sessions[v]) ELSE None,
     pc |-> pc[v], state |-> state[v], turn |-> turn[v], sent |-> sent[v]]

\* The contents of the messages of q that have the given role, in order.
RECURSIVE ContentsOf(_, _)
ContentsOf(q, role) ==
    IF q = <<>> THEN <<>>
    ELSE IF Head(q).role = role
        THEN <<Head(q).content>> \o ContentsOf(Tail(q), role)
    ELSE ContentsOf(Tail(q), role)

\* The snapshots a turn run on its own may end with, given the symbols its
\* fetch quoted: none when the route skipped the fetch.
AloneSnapshots(u) ==
    IF ~Fetched(u) THEN {None}
    ELSE LET holdings == get_portfolio_data(ledger).holdings
         IN  { fetch_portfolio(ledger, fetched, numeric) :
                 fetched \in { f \in [1..Len(holdings) -> Opt(Quotes)] :
                                 {holdings[i].symbol :
                                    i \in {j \in 1..Len(holdings) : ~IsNone(f[j])}}
                                 = Val(turn[u].quoted) },
                 numeric \in Numerics }

\* The session the first turn of u ends with when it runs on its own in a
\* new session, from what the turn received: the text, the classifier's
\* reply, the list Analyze built and the outcome of the synthesis call.
AloneSession(u) ==
    LET produced == ~IsNone(turn[u].analysed) /\ Val(turn[u].analysed) # <<>>
    IN  [messages |->
            <<Message("user", Val(turn[u].incoming)),
              Message("assistant", IF turn[u].synth = "ok" THEN Reply ELSE Apology)>>,
         portfolio_data |-> user_sessions[u].portfolio_data,
         current_analysis |->
            IF produced THEN Some(Val(turn[u].analysed)[1]) ELSE None,
         user_context |->
            [process_message(EmptyContext, Val(turn[u].reply)) EXCEPT
                !.all_analyses = IF produced THEN turn[u].analysed ELSE None],
         last_action |-> None]

\* C18: sessions are isolated per user. Whatever the overlap of the turns of
\* two users, a step of one user's turn leaves everything held for the other
\* user as it was; a session holds only its own user's texts and the replies
\* sent to that user; and the session a user's first turn ends with is the
\* one that turn gives when it runs alone.
C18_SessionsIsolated ==
    /\ [](\A u \in DOMAIN user_sessions :
            /\ \A i \in 1..Len(user_sessions[u].messages) :
                  user_sessions[u].messages[i].role = "user" =>
                      \E n \in 1..Len(Texts) :
                          user_sessions[u].messages[i].content = UserText(u, n)
            /\ pc[u] = "idle" =>
                  ContentsOf(user_sessions[u].messages, "assistant") = sent[u]
            /\ (TurnDone(u) /\ Len(user_sessions[u].messages) = 2) =>
                  /\ user_sessions[u] = AloneSession(u)
                  /\ user_sessions[u].portfolio_data \in AloneSnapshots(u))
    /\ [][\A u, v \in TwoUsers :
            (u # v /\ turn'[u] # turn[u]) => Held(v)' = Held(v)]_vars

\* The turn of u2 was accepted while the turn of u1 was in the pipeline, and
\* ended before it: u2 has its session with its own two messages and u1's
\* turn is still in front of Respond.
C18_Witness ==
    /\ DOMAIN user_sessions = TwoUsers
    /\ pc["u1"] = "generate_response"
    /\ Len(turn["u1"].steps) = 3
    /\ pc["u2"] = "idle"
    /\ Len(turn["u2"].steps) = 4
    /\ user_sessions["u2"].messages[1] = Message("user", UserText("u2", 2))
    /\ Len(user_sessions["u2"].messages) = 2
    /\ Len(user_sessions["u1"].messages) = 1
    /\ ~IsNone(user_sessions["u2"].portfolio_data)

\* q is an initial part of r.
IsPrefix(q, r) == Len(q) <= Len(r) /\ q = SubSeq(r, 1, Len(q))

\* The two paths of the graph of lines 54-66.
LongPath == <<"process_message", "fetch_portfolio", "analyze_portfolio", "generate_response">>

ShortPath == <<"process_message", "generate_response">>

\* C21: within a turn the nodes run in the order process_message, then
\* possibly fetch_portfolio followed by analyze_portfolio, then
\* generate_response. The nodes that have run are always an initial part of
\* one of the two paths, the node about to run is the next one of that path
\* (analyze_portfolio after fetch_portfolio, generate_response after
\* analyze_portfolio, analyze_portfolio never without fetch_portfolio before
\* it), no node runs twice, and after generate_response the turn is over.
C21_StepsInFixedOrder ==
    \A u \in Users :
        LET steps == turn[u].steps
        IN  /\ IsPrefix(steps, LongPath) \/ IsPrefix(steps, ShortPath)
            /\ pc[u] = "idle" => steps \in {<<>>, LongPath, ShortPath}
            /\ pc[u] = "process_message" => steps = <<>>
            /\ pc[u] = "fetch_portfolio" => steps = <<"process_message">>
            /\ pc[u] = "analyze_portfolio" => steps = SubSeq(LongPath, 1, 2)
            /\ pc[u] = "generate_response" =>
                  steps \in {<<"process_message">>, SubSeq(LongPath, 1, 3)}
            /\ (steps # <<>> /\ Last(steps) = "generate_response") => pc[u] = "idle"

\* A second turn of the session has taken the long path to its end.
C21_Witness ==
    /\ nturns = 2
    /\ TurnDone("u1")
    /\ turn["u1"].steps = LongPath

\* C22: the base step. A change above +5% gives BUY at 0.70, a change below
\* -5% gives SELL at 0.70, and a change from -5% to +5%, both ends included,
\* gives HOLD at 0.50. The first part of the reasoning names the base branch
\* whatever the later steps do; the action and the confidence of the result
\* are the base ones where the later steps have nothing to adjust (neutral
\* sentiment, no holding).
C22_BaseStep ==
    (~IsNone(fn_out) /\ ~IsNone(Val(fn_in).market_data)) =>
        LET change_percent == Val(Val(fn_in).market_data).change_percent
            result == Val(fn_out)
            untouched == result.sentiment = "neutral" /\ IsNone(Val(fn_in).holding)
        IN  /\ change_percent > 5 =>
                  /\ result.reasoning[1] = Fragment("Price is up %", Some(Pct(change_percent)))
                  /\ untouched => result.recommendation = "buy" /\ result.confidence = Conf(70)
            /\ change_percent < -5 =>
                  /\ result.reasoning[1] = Fragment("Price is down %", Some(Pct(-change_percent)))
                  /\ untouched => result.recommendation = "sell" /\ result.confidence = Conf(70)
            /\ (-5 <= change_percent /\ change_percent <= 5) =>
                  /\ result.reasoning[1] = Fragment("Price is relatively stable", None)
                  /\ untouched => result.recommendation = "hold" /\ result.confidence = Conf(50)

\* A change of exactly +5% with no news and no holding: HOLD at 0.50.
C22_Witness ==
    /\ ~IsNone(fn_out)
    /\ ~IsNone(Val(fn_in).market_data)
    /\ Val(Val(fn_in).market_data).change_percent = 5
    /\ Val(fn_in).news_items = <<>>
    /\ IsNone(Val(fn_in).holding)
    /\ Val(fn_out).recommendation = "hold"
    /\ Val(fn_out).confidence = Conf(50)
    /\ Val(fn_out).reasoning = <<Fragment("Price is relatively stable", None)>>

\* C23 as stated: the aggregate sentiment is the label that more news items
\* carry than each of the other two labels, and neutral when no label does
\* (a tie, or no items).
C23_MajorityOfThreeLabels ==
    (~IsNone(fn_out) /\ ~IsNone(Val(fn_in).market_data)) =>
        LET news_items == Val(fn_in).news_items
            wins(label) ==
                \A other \in SentimentIndicator \ {label} :
                    CountLabel(news_items, label) > CountLabel(news_items, other)
        IN  /\ \A label \in SentimentIndicator : wins(label) => Val(fn_out).sentiment = label
            /\ (\A label \in SentimentIndicator : ~wins(label)) =>
                  Val(fn_out).sentiment = "neutral"

\* C23: the aggregate sentiment sets the positive items against the
\* negative ones and leaves the neutral items out of the count: positive
\* when more items are positive than negative, negative when more are
\* negative than positive, neutral when the two counts are equal, which
\* includes the empty list.
C23_PositiveAgainstNegative ==
    (~IsNone(fn_out) /\ ~IsNone(Val(fn_in).market_data)) =>
        LET news_items == Val(fn_in).news_items
            positive_count == CountLabel(news_items, "positive")
            negative_count == CountLabel(news_items, "negative")
        IN  /\ positive_count > negative_count => Val(fn_out).sentiment = "positive"
            /\ negative_count > positive_count => Val(fn_out).sentiment = "negative"
            /\ positive_count = negative_count => Val(fn_out).sentiment = "neutral"

\* Two neutral items and a positive one: the aggregate is positive.
C23_Witness ==
    /\ ~IsNone(fn_out)
    /\ ~IsNone(Val(fn_in).market_data)
    /\ CountLabel(Val(fn_in).news_items, "neutral") = 2
    /\ CountLabel(Val(fn_in).news_items, "positive") = 1
    /\ Val(fn_out).sentiment = "positive"

\* The analyze_portfolio node of the turn of u has just run.
Analyzed(u) == pc[u] = "generate_response" /\ Len(turn[u].steps) = 3

\* C24: with a snapshot present (and a list of symbols in the context),
\* Analyze takes as targets the symbols Classify extracted, or the symbols of
\* all holdings in their order when it extracted none; it builds one result
\* per target, in the order of the targets, each from the holding that has
\* the target's symbol, or from no holding when none has; the Analysis
\* Result becomes the first of these results, and the list the context holds
\* (none counting as the empty list) is the list of these results.
C24_AnalyzeTargetsInOrder ==
    \A u \in Users :
        (/\ Analyzed(u)
         /\ ~IsNone(state[u].portfolio_data)
         /\ Get(user_sessions[u].user_context.symbols, SymList(<<>>)).iter) =>
            LET holdings == Val(state[u].portfolio_data).holdings
                extracted == Get(user_sessions[u].user_context.symbols, SymList(<<>>)).items
                targets == IF extracted # <<>> THEN extracted
                           ELSE [i \in 1..Len(holdings) |-> holdings[i].symbol]
                held(symbol) == {i \in 1..Len(holdings) : holdings[i].symbol = symbol}
                position(symbol) ==
                    IF held(symbol) = {} THEN None
                    ELSE Some(holdings[CHOOSE i \in held(symbol) :
                                          \A j \in held(symbol) : i <= j])
            IN  /\ ~IsNone(turn[u].analysed)
                /\ Len(Val(turn[u].analysed)) = Len(targets)
                /\ \A i \in 1..Len(targets) :
                      \E r \in SymbolResults :
                          Val(turn[u].analysed)[i] =
                              analyze_symbol(targets[i], position(targets[i]),
                                             r.market_data, r.news_items)
                /\ targets # <<>> =>
                      state[u].current_analysis = Some(Val(turn[u].analysed)[1])
                /\ Get(user_sessions[u].user_context.all_analyses, <<>>)
                      = Val(turn[u].analysed)

\* C25: with no snapshot at the Analyze step the step does nothing. It calls
\* neither gateway (no list of results is built), and the messages, the
\* snapshot, the Analysis Result and the context, as the graph carries them
\* and as the session holds them, are after the step what they were before
\* it; nothing is sent.
C25_AnalyzeWithoutSnapshotIsNoOp ==
    [][\A u \in Users :
          (pc[u] = "analyze_portfolio" /\ IsNone(state[u].portfolio_data)) =>
              /\ state'[u] = state[u]
              /\ user_sessions'[u] = user_sessions[u]
              /\ sent'[u] = sent[u]
              /\ IsNone(turn'[u].analysed)
              /\ pc'[u] = "generate_response"]_vars

\* The fetch of a second turn raised, Analyze has run with no snapshot, and
\* the Analysis Result of the first turn is where it was.
C25_Witness ==
    /\ Analyzed("u1")
    /\ nturns = 2
    /\ IsNone(state["u1"].portfolio_data)
    /\ IsNone(turn["u1"].analysed)
    /\ ~IsNone(state["u1"].current_analysis)
    /\ state["u1"].current_analysis = user_sessions["u1"].current_analysis

\* The number of times the source appears among the calls.
CallsOf(calls, source) == Cardinality({i \in 1..Len(calls) : calls[i] = source})

\* C26: the news fallback chain. With no credential the primary source is
\* not called and the secondary one is; with a credential, a failed request
\* or a parse error in the primary path gives the secondary source's items
\* and none of the primary items built so far; where the secondary source
\* is used and fails the result is the empty list; no outcome leaves the
\* request as an exception, and no source is called more than once.
C26_NewsFallbackChain ==
    ~IsNone(fn_out) =>
        LET in == Val(fn_in)
            out == Val(fn_out)
            fallback == ~in.api_key \/ in.primary.kind \in {"request_failed", "parse_error"}
        IN  /\ ~out.raised
            /\ CallsOf(out.calls, "newsapi") <= 1
            /\ CallsOf(out.calls, "yahoo") <= 1
            /\ ~in.api_key => out.calls = <<"yahoo">>
            /\ (in.api_key /\ in.primary.kind # "ok") => out.calls = <<"newsapi", "yahoo">>
            /\ fallback =>
                  /\ \A i \in 1..Len(out.items) : out.items[i].source = "yahoo"
                  /\ in.secondary.kind = "ok" => out.items = in.secondary.items
                  /\ in.secondary.kind = "failed" => out.items = <<>>

\* A credential, a parse error after one primary item had been built, and a
\* secondary source with items: the result is the secondary items alone.
C26_Witness ==
    /\ ~IsNone(fn_out)
    /\ Val(fn_in).api_key
    /\ Val(fn_in).primary.kind = "parse_error"
    /\ Len(Val(fn_in).primary.items) = 1
    /\ Val(fn_in).secondary.kind = "ok"
    /\ Len(Val(fn_in).secondary.items) = 2
    /\ Val(fn_out).items = Val(fn_in).secondary.items
    /\ Val(fn_out).calls = <<"newsapi", "yahoo">>

\* The Analysis Result the session of u has: the one the graph carries
\* while a turn runs, the stored one between turns.
CarriedAnalysis(u) ==
    IF pc[u] = "idle" THEN user_sessions[u].current_analysis
    ELSE state[u].current_analysis

\* C27: between the steps of a turn and between the turns of a session, an
\* Analysis Result that is present comes with a non-empty list of analyses
\* in the context, and is the first element of that list.
C27_PrimaryIsFirstOfList ==
    \A u \in DOMAIN user_sessions :
        ~IsNone(CarriedAnalysis(u)) =>
            LET all_analyses == user_sessions[u].user_context.all_analyses
            IN  /\ ~IsNone(all_analyses)
                /\ Val(all_analyses) # <<>>
                /\ CarriedAnalysis(u) = Some(Val(all_analyses)[1])

\* Two turns have analysed: the first all the holdings, the second the
\* symbols MSFT and AAPL; the stored Analysis Result is the one of MSFT, the
\* first of the second turn's list.
C27_Witness ==
    /\ nturns = 2
    /\ TurnDone("u1")
    /\ turn["u1"].steps = LongPath
    /\ ~IsNone(user_sessions["u1"].current_analysis)
    /\ Val(user_sessions["u1"].current_analysis).symbol = "MSFT"
    /\ Len(Val(user_sessions["u1"].user_context.all_analyses)) = 2
    /\ user_sessions["u1"].current_analysis
          = Some(Val(user_sessions["u1"].user_context.all_analyses)[1])

\* The three classification entries that the reply of this turn of u gives,
\* whatever the context held before: the values of the parsed record or the
\* default of each absent key, and the three defaults when the call or the
\* parsing failed.
FromThisTurn(u) ==
    LET reply == Val(turn[u].reply)
        parsed == reply.kind = "parsed"
    IN  [intent |-> IF parsed /\ ~IsNone(reply.analysis.intent)
                    THEN reply.analysis.intent ELSE Some("general_question"),
         symbols |-> IF parsed /\ ~IsNone(reply.analysis.symbols)
                     THEN reply.analysis.symbols ELSE Some(SymList(<<>>)),
         requires_portfolio |-> IF parsed /\ ~IsNone(reply.analysis.requires_portfolio)
                                THEN reply.analysis.requires_portfolio ELSE Some(FALSE)]

\* C28: once Classify has run in a turn, the intent, the symbols and the
\* requires_portfolio flag of the context are the ones this turn's
\* classification gives, on the success path and on both failure paths, and
\* stay so to the end of the turn; the route taken after Classify and the
\* symbols Analyze built results for follow from these entries, not from
\* what an earlier turn left.
C28_ClassificationNeverLeftOver ==
    \A u \in Users :
        turn[u].steps # <<>> =>
            LET now == FromThisTurn(u)
                wants == \/ Val(now.requires_portfolio)
                         \/ Val(now.intent) \in {"portfolio_query", "stock_analysis"}
                extracted == Val(now.symbols).items
            IN  /\ Classified(u) = now
                /\ AfterClassify(u) = IF wants THEN "fetch_portfolio" ELSE "generate_response"
                /\ (~IsNone(turn[u].analysed) /\ extracted # <<>>) =>
                      [i \in 1..Len(Val(turn[u].analysed)) |-> Val(turn[u].analysed)[i].symbol]
                          = extracted
                /\ (~IsNone(turn[u].analysed) /\ extracted = <<>> /\ pc[u] # "idle") =>
                      [i \in 1..Len(Val(turn[u].analysed)) |-> Val(turn[u].analysed)[i].symbol]
                          = [i \in 1..Len(Val(state[u].portfolio_data).holdings) |->
                                Val(state[u].portfolio_data).holdings[i].symbol]

\* The first turn extracted MSFT and AAPL and asked for the portfolio; the
\* classification call of the second turn failed: the context holds the
\* three defaults and the turn went straight to Respond.
C28_Witness ==
    /\ nturns = 2
    /\ TurnDone("u1")
    /\ Val(turn["u1"].reply).kind = "call_failed"
    /\ ~IsNone(user_sessions["u1"].user_context.all_analyses)
    /\ Val(user_sessions["u1"].user_context.all_analyses)[1].symbol = "MSFT"
    /\ Classified("u1") = [intent |-> Some("general_question"),
                           symbols |-> Some(SymList(<<>>)),
                           requires_portfolio |-> Some(FALSE)]
    /\ turn["u1"].steps = ShortPath

====
